---- MODULE Spec2Model ----
(***************************************************************************)
(* Trade-settlement subsystem of ezback: the Round Ledger                  *)
(* (addUserToJackpot), the Offer Tracker (trackTradeOffer), the Offer      *)
(* Dispatcher (sendTradeOfferToUser) and the Session Controller            *)
(* (steamTradeBot.js).                                                     *)
(*                                                                         *)
(* The process is one Node.js event loop: a handler runs from one await    *)
(* to the next without interruption, so every action below is one such     *)
(* run-to-completion step (a callback, or the continuation of an await).   *)
(***************************************************************************)
EXTENDS Integers, Sequences, FiniteSets, TLC

(***************************************************************************)
(* Bounds of the model.                                                    *)
(***************************************************************************)
\* credit invocations (addUserToJackpot calls) of the ledger specification;
\* credit c is the c-th invocation
NumCredits == 2

\* trade offers followed by the tracker specification
NumOffers == 2

\* offer.update() calls of one offer that can be in flight together
MaxInFlight == 2

\* calls of getInventory the model follows
NumLookups == 2

\* steps the clock of the price cache advances
NumTicks == 4

\* join requests whose round lookup the round specification follows
NumJoins == 3

(***************************************************************************)
(* The stored data the ledger reads: users, items and their prices.        *)
(***************************************************************************)
Users == {"u1", "u2"}

Items == {"A", "B", "C", "D", "E"}

\* Item.price as stored: a string such as "5 USD" (getInventory.js builds
\* prices as `marketPriceMap[name] || '0 USD'`), here a sequence of
\* characters.  Item E has no price field: parseFloat(undefined) parses the
\* string "undefined".
Price(i) ==
  CASE i = "A" -> <<"5", " ", "U", "S", "D">>
    [] i = "B" -> <<" ", "3">>
    [] i = "C" -> <<"a", "b", "c">>
    [] i = "D" -> <<"1", "2", "x">>
    [] OTHER   -> <<"u", "n", "d", "e", "f", "i", "n", "e", "d">>

\* The deposits a join request can carry: (userId, itemIds).
Deposits ==
  { [userId |-> "u1", itemIds |-> {"A", "B"}],
    [userId |-> "u1", itemIds |-> {"C", "E"}],
    [userId |-> "u1", itemIds |-> {"B", "C"}],
    [userId |-> "u2", itemIds |-> {"D"}] }

\* A stored user without a Steam trade URL (user.tradeUrl is empty).
UsersWithoutTradeUrl == {"u3"}

\* The bodies a join request can carry: the deposits, and a request of each
\* kind joinJackpot refuses: no item ids, an unknown user, a user without
\* a trade URL, item ids that match no stored item.
JoinRequests ==
  Deposits \cup
  { [userId |-> "u1", itemIds |-> {}],
    [userId |-> "u9", itemIds |-> {"A"}],
    [userId |-> "u3", itemIds |-> {"A"}],
    [userId |-> "u2", itemIds |-> {"Z"}] }

\* user.inventory of each stored user when the process starts
InitialInventory(u) == IF u = "u1" THEN {"A", "B", "C", "E"} ELSE {"D"}

(***************************************************************************)
(* parseFloat: skip leading white space, read the longest prefix of        *)
(* decimal digits; no digit gives NaN.  (Prices of the model carry no      *)
(* sign, fraction or exponent.)                                            *)
(***************************************************************************)
Digits == {"0", "1", "2", "3", "4", "5", "6", "7", "8", "9"}

DigitVal(ch) ==
  CASE ch = "0" -> 0 [] ch = "1" -> 1 [] ch = "2" -> 2 [] ch = "3" -> 3
    [] ch = "4" -> 4 [] ch = "5" -> 5 [] ch = "6" -> 6 [] ch = "7" -> 7
    [] ch = "8" -> 8 [] OTHER -> 9

RECURSIVE SkipWs(_)
SkipWs(s) == IF s # <<>> /\ Head(s) = " " THEN SkipWs(Tail(s)) ELSE s

RECURSIVE DigitsPrefix(_)
DigitsPrefix(s) ==
  IF s # <<>> /\ Head(s) \in Digits
    THEN <<Head(s)>> \o DigitsPrefix(Tail(s))
    ELSE <<>>

RECURSIVE ToNat(_)
ToNat(ds) ==
  IF ds = <<>> THEN 0
  ELSE 10 * ToNat(SubSeq(ds, 1, Len(ds) - 1)) + DigitVal(ds[Len(ds)])

NaN == [nan |-> TRUE, v |-> 0]

\* Mutant of ParseFloat: as Number(s), the whole string must be digits.
ParseFloatWhole(s) ==
  IF s # <<>> /\ DigitsPrefix(s) = s
    THEN [nan |-> FALSE, v |-> ToNat(s)]
    ELSE NaN

ParseFloat(s) ==
  LET ds == DigitsPrefix(SkipWs(s))
  IN  IF ds = <<>> THEN NaN ELSE [nan |-> FALSE, v |-> ToNat(ds)]

IsNaN(x) == x.nan


(***************************************************************************)
(* State.                                                                  *)
(***************************************************************************)
VARIABLES
  jackpot,      \* the stored Jackpot document (the round) all credits target
  users,        \* users[u]: the stored user.inventory of user u
  credits,      \* credits[c]: one invocation of addUserToJackpot
  timerStarts,  \* number of jackpotManager.startRoundTimer() calls
  published,    \* the 'participants' events emitted through io, in order
  interleaved,  \* history: some credit began while another was between
                \* its round load and the end of its round save
  offers,       \* offers[p]: one trade offer of a join request and its tracker
  invoked,      \* invoked[p]: the arguments of each addUserToJackpot call
                \* made by the tracker of offer p, in order
  bot,          \* the module state of steamTradeBot.js and the Steam client
  send,         \* one call of sendTradeOfferToUser(tradeUrl, items)
  market,       \* getInventory.js: the price cache, the clock, the price
                \* API and the calls of getInventory
  lobby         \* the stored Jackpot documents, and the join requests that
                \* find or create the active one

ledgerVars == <<jackpot, users, credits, timerStarts, published, interleaved>>

trackVars == <<offers, invoked>>

botVars == <<bot, send>>

priceVars == <<market>>

joinVars == <<lobby>>

vars == <<jackpot, users, credits, timerStarts, published, interleaved,
          offers, invoked, bot, send, market, lobby>>

CreditIds == 1 .. NumCredits

\* a Jackpot document not loaded yet
NoDoc == [participants |-> <<>>, totalValue |-> 0, status |-> "none"]

IdleCredit ==
  [ pc        |-> "idle",
    userId    |-> "none",
    itemIds   |-> {},
    jackpot   |-> NoDoc,   \* the credit's in-memory Jackpot document
    inventory |-> {},      \* the credit's in-memory user.inventory
    modTotal  |-> FALSE,   \* totalValue differs from the loaded value
    modStatus |-> FALSE ]  \* status differs from the loaded value

\* pcs of a credit between its round load and the end of its round save
RoundWindow == {"findJackpot", "findUser", "findItems", "saveJackpot"}

\* new Jackpot({ status: 'waiting', totalValue: 0, participants: [] })
NewJackpot == [participants |-> <<>>, totalValue |-> 0, status |-> "waiting"]

\* The same round after one earlier credit of u2's item D, which lies before
\* the NumCredits invocations the model follows.
SeededJackpot ==
  [ participants |-> <<[user |-> "u2", items |-> {"D"}]>>,
    totalValue   |-> 12,
    status       |-> "waiting" ]

LedgerInit(seeds) ==
  /\ \E seeded \in seeds :
       /\ jackpot = IF seeded THEN SeededJackpot ELSE NewJackpot
       /\ users = [u \in Users |->
                    IF seeded /\ u = "u2" THEN {} ELSE InitialInventory(u)]
       /\ published = IF seeded THEN <<SeededJackpot.participants>> ELSE <<>>
  /\ credits = [c \in CreditIds |-> IdleCredit]
  /\ timerStarts = 0
  /\ interleaved = FALSE

OfferIds == 1 .. NumOffers

\* ETradeOfferState as the tracker sees it; "Expired" stands for every
\* terminal state other than Accepted and Declined.
OfferStates == {"Active", "Accepted", "Declined", "Expired"}

NoOffer ==
  [ stage    |-> "none",     \* none: no request yet; refused; joining:
                             \* joinJackpot awaits sendTradeOfferToUser;
                             \* rejected, fetching, fetchFailed, polling,
                             \* cleared
    answer   |-> "none",     \* the response joinJackpot has sent
    userId   |-> "none",
    itemIds  |-> {},
    remote   |-> "none",     \* the offer's state at the trading network
    state    |-> "none",     \* offer.state of the fetched TradeOffer object
    inflight |-> 0 ]         \* offer.update() calls not yet called back

TrackInit ==
  /\ offers = [p \in OfferIds |-> NoOffer]
  /\ invoked = [p \in OfferIds |-> <<>>]

\* steamTradeBot.js once loaded: the counters and the flag as declared,
\* then the initial loginToSteam() of line 174 (first attempt, log-on sent).
BotInit ==
  bot = [ loginAttempts     |-> 1,
          reconnectAttempts |-> 0,
          isLoggedIn        |-> FALSE,
          client            |-> "connecting",  \* offline, connecting, online
          timers            |-> 0,   \* pending setTimeout(loginToSteam, delay)
          cookies           |-> FALSE,  \* manager.setCookies() has been called
          delays            |-> <<>>,   \* history: the delay, in seconds, of
                                        \* each setTimeout of handleReconnect
          errorsOnly        |-> TRUE,   \* history: no handler but that of
                                        \* 'error' has called handleReconnect
          lost              |-> "no",   \* no, silent, checked: the session was
                                        \* lost without any event, and then a
                                        \* heartbeat has run since
          process           |-> "running" ]

NoSend ==
  [ pc          |-> "idle",     \* idle, sending, settled, hung
    attempt     |-> 1,
    errs        |-> <<>>,       \* err.message of each failed submission
    submissions |-> 0,          \* tradeOffer.send() calls
    logins      |-> 0,          \* loginToSteam() calls of the retry path
    relogin     |-> "none",     \* history of the retry path's log-on: none,
                                \* threw, refused, started, established,
                                \* failed
    result      |-> "pending" ] \* "SENT" or the code of the rejection

SendInit == send = NoSend

LookupIds == 1 .. NumLookups

\* const CACHE_DURATION = 24 * 60 * 60 * 1000, in milliseconds
CACHE_DURATION == 24 * 60 * 60 * 1000

\* Date.now() is read in steps of twelve hours.
ClockStep == 12 * 60 * 60 * 1000

NoLookup ==
  [ pc     |-> "idle",    \* idle, inventory, prices, returned, threw
    error  |-> FALSE,     \* data.error of the returned object is set
    prices |-> <<>> ]     \* the price of each item of the returned object

\* getInventory.js once loaded: marketPriceCache = null (0 here; 1 and 2
\* are the price lists the API serves), lastCacheTime = 0.
MarketInit ==
  market = [ marketPriceCache |-> 0,
             lastCacheTime    |-> 0,
             now              |-> ClockStep,
             api              |-> 1,
             lookups          |-> [c \in LookupIds |-> NoLookup] ]

JoinIds == 1 .. NumJoins

NoJoin ==
  [ pc      |-> "idle",   \* idle, findOne, create, found, refused, failed
    jackpot |-> 0 ]       \* the round of the request: its place in rounds

\* No Jackpot document is stored when the process first starts.
LobbyInit ==
  lobby = [ rounds |-> <<>>,    \* the status of each stored Jackpot document
            joins  |-> [j \in JoinIds |-> NoJoin] ]

Init ==
  /\ LedgerInit(BOOLEAN) /\ TrackInit /\ BotInit /\ SendInit
  /\ MarketInit /\ LobbyInit

\* the tracker and the bot specifications start from the new round
InitNewRound ==
  /\ LedgerInit({FALSE}) /\ TrackInit /\ BotInit /\ SendInit
  /\ MarketInit /\ LobbyInit

(***************************************************************************)
(* Round Ledger: addUserToJackpot(userId, itemIds, jackpotId).             *)
(*                                                                         *)
(* The round and the user of a credit exist (joinJackpot found or created  *)
(* them before the offer was sent); a query that rejects, or a document    *)
(* that is missing, ends the credit in its catch block (CreditFails).      *)
(***************************************************************************)

\* Item.find({_id: {$in: itemIds}}): the stored items among itemIds
ItemFind(itemIds) == itemIds \cap Items

\* items.reduce((acc, item) => acc + (isNaN(v) ? 0 : v), 0), v = parseFloat(item.price)
ItemValue(i) ==
  LET itemValue == ParseFloat(Price(i))
  IN  IF IsNaN(itemValue) THEN 0 ELSE itemValue.v

RECURSIVE SumValues(_)
SumValues(items) ==
  IF items = {} THEN 0
  ELSE LET i == CHOOSE x \in items : TRUE
       IN  ItemValue(i) + SumValues(items \ {i})

\* new Set(jackpot.participants.map(p => p.user._id.toString()))
UniqueUserIds(participants) ==
  { participants[k].user : k \in 1 .. Len(participants) }

\* Mutant of PushParticipant: a repeat credit extends the user's entry.
PushParticipantMerging(doc, userId, items) ==
  IF \E k \in 1 .. Len(doc.participants) : doc.participants[k].user = userId
    THEN [doc EXCEPT !.participants =
            [k \in 1 .. Len(@) |->
               IF @[k].user = userId
                 THEN [@[k] EXCEPT !.items = @ \cup items]
                 ELSE @[k]]]
    ELSE [doc EXCEPT !.participants =
            Append(@, [user |-> userId, items |-> items])]

\* jackpot.participants.push({user, items, color}); the color is a random
\* display attribute and is left out.
PushParticipant(doc, userId, items) ==
  [doc EXCEPT !.participants = Append(@, [user |-> userId, items |-> items])]

\* Mutant of AddTotal: `=` for `+=`.
AddTotalAssigning(doc, totalValue) == [doc EXCEPT !.totalValue = totalValue]

\* jackpot.totalValue += totalValue
AddTotal(doc, totalValue) == [doc EXCEPT !.totalValue = @ + totalValue]

\* the status rule: a waiting round with >= 2 unique user ids starts
StartsRound(doc) ==
  doc.status = "waiting" /\ Cardinality(UniqueUserIds(doc.participants)) >= 2

\* addUserToJackpot has returned: its locals are gone, its arguments are
\* kept as the record of the call.
Returned(cr, pc) ==
  [IdleCredit EXCEPT !.pc = pc, !.userId = cr.userId, !.itemIds = cr.itemIds]

\* The call itself: console.log and the first await (Jackpot.findById).
CreditCall(c, userId, itemIds) ==
  /\ credits[c].pc = "idle"
  /\ \A d \in CreditIds : d < c => credits[d].pc # "idle"
  /\ credits' = [credits EXCEPT ![c] =
       [IdleCredit EXCEPT !.pc = "findJackpot", !.userId = userId,
                          !.itemIds = itemIds]]
  /\ interleaved' =
       (interleaved \/ \E d \in CreditIds : credits[d].pc \in RoundWindow)
  /\ UNCHANGED <<jackpot, users, timerStarts, published>>
  /\ UNCHANGED <<trackVars, botVars, priceVars, joinVars>>

\* Mutant of CreditFails: the catch block emits the participants event.
CreditFailsPublishing(c) ==
  /\ credits[c].pc \in {"findJackpot", "findUser", "findItems",
                        "saveJackpot", "saveUser"}
  /\ credits' = [credits EXCEPT ![c] = Returned(credits[c], "failed")]
  /\ published' = Append(published, credits[c].jackpot.participants)
  /\ UNCHANGED <<jackpot, users, timerStarts, interleaved>>
  /\ UNCHANGED <<trackVars, botVars, priceVars, joinVars>>

\* Any await of the credit rejects: the catch block logs and returns.
CreditFails(c) ==
  /\ credits[c].pc \in {"findJackpot", "findUser", "findItems",
                        "saveJackpot", "saveUser"}
  /\ credits' = [credits EXCEPT ![c] = Returned(credits[c], "failed")]
  /\ UNCHANGED <<jackpot, users, timerStarts, published, interleaved>>
  /\ UNCHANGED <<trackVars, botVars, priceVars, joinVars>>

\* Jackpot.findById resolves; User.findById is issued.
FindJackpotDone(c) ==
  /\ credits[c].pc = "findJackpot"
  /\ credits' = [credits EXCEPT ![c].pc = "findUser", ![c].jackpot = jackpot]
  /\ UNCHANGED <<jackpot, users, timerStarts, published, interleaved>>
  /\ UNCHANGED <<trackVars, botVars, priceVars, joinVars>>

\* User.findById resolves; Item.find is issued.
FindUserDone(c) ==
  /\ credits[c].pc = "findUser"
  /\ credits' = [credits EXCEPT ![c].pc = "findItems",
                                ![c].inventory = users[credits[c].userId]]
  /\ UNCHANGED <<jackpot, users, timerStarts, published, interleaved>>
  /\ UNCHANGED <<trackVars, botVars, priceVars, joinVars>>

\* Item.find resolves; the in-memory mutation and the status rule run, the
\* round timer is started, and jackpot.save() is issued.
MutatedJackpot(doc, userId, items) ==
  LET pushed == AddTotal(PushParticipant(doc, userId, items), SumValues(items))
  IN  IF StartsRound(pushed)
        THEN [pushed EXCEPT !.status = "in_progress"]
        ELSE pushed

FindItemsDone(c) ==
  /\ credits[c].pc = "findItems"
  /\ LET cr    == credits[c]
         items == ItemFind(cr.itemIds)
         doc   == MutatedJackpot(cr.jackpot, cr.userId, items)
     IN  /\ credits' = [credits EXCEPT
                ![c].pc = "saveJackpot",
                ![c].jackpot = doc,
                ![c].modTotal = (doc.totalValue # cr.jackpot.totalValue),
                ![c].modStatus = (doc.status # cr.jackpot.status)]
         /\ timerStarts' =
              IF doc.status # cr.jackpot.status THEN timerStarts + 1
              ELSE timerStarts
  /\ UNCHANGED <<jackpot, users, published, interleaved>>
  /\ UNCHANGED <<trackVars, botVars, priceVars, joinVars>>

\* Mutant of SaveDelta: the save overwrites the stored document with the
\* in-memory one.
SaveWhole(stored, cr) == cr.jackpot

\* jackpot.save() of a loaded Mongoose document writes the paths modified
\* since the load: the pushed participant as a $push onto the stored array,
\* totalValue and status as $set, each only when it was changed.  (The
\* schema's defaults are assumed: a push does not make the save conditional
\* on the document's version.)
SaveDelta(stored, cr) ==
  [ participants |->
      Append(stored.participants,
             cr.jackpot.participants[Len(cr.jackpot.participants)]),
    totalValue |->
      IF cr.modTotal THEN cr.jackpot.totalValue ELSE stored.totalValue,
    status |->
      IF cr.modStatus THEN cr.jackpot.status ELSE stored.status ]

\* user.inventory.filter(itemId => !itemIds.includes(itemId.toString()))
FilterInventory(inventory, itemIds) == inventory \ itemIds

\* jackpot.save() resolves; the inventory is filtered, user.save() is issued.
SaveJackpotDone(c) ==
  /\ credits[c].pc = "saveJackpot"
  /\ jackpot' = SaveDelta(jackpot, credits[c])
  /\ credits' = [credits EXCEPT
        ![c].pc = "saveUser",
        ![c].inventory = FilterInventory(@, credits[c].itemIds)]
  /\ UNCHANGED <<users, timerStarts, published, interleaved>>
  /\ UNCHANGED <<trackVars, botVars, priceVars, joinVars>>

\* user.save() resolves; the participants event is emitted.
SaveUserDone(c) ==
  /\ credits[c].pc = "saveUser"
  /\ users' = [users EXCEPT ![credits[c].userId] = credits[c].inventory]
  /\ published' = Append(published, credits[c].jackpot.participants)
  /\ credits' = [credits EXCEPT ![c] = Returned(credits[c], "done")]
  /\ UNCHANGED <<jackpot, timerStarts, interleaved>>
  /\ UNCHANGED <<trackVars, botVars, priceVars, joinVars>>

\* The external round manager ends the round its timer was started for.
RoundComplete ==
  /\ timerStarts > 0
  /\ jackpot.status = "in_progress"
  /\ jackpot' = [jackpot EXCEPT !.status = "completed"]
  /\ UNCHANGED <<users, credits, timerStarts, published, interleaved>>
  /\ UNCHANGED <<trackVars, botVars, priceVars, joinVars>>

Next ==
  \/ \E c \in CreditIds, d \in Deposits : CreditCall(c, d.userId, d.itemIds)
  \/ \E c \in CreditIds : FindJackpotDone(c)
  \/ \E c \in CreditIds : FindUserDone(c)
  \/ \E c \in CreditIds : FindItemsDone(c)
  \/ \E c \in CreditIds : SaveJackpotDone(c)
  \/ \E c \in CreditIds : SaveUserDone(c)
  \/ \E c \in CreditIds : CreditFails(c)
  \/ RoundComplete

Spec == Init /\ [][Next]_vars


(***************************************************************************)
(* Offer Tracker: trackTradeOffer(offerId, userId, itemIds, jackpotId),     *)
(* called by joinJackpot once sendTradeOfferToUser has resolved.           *)
(***************************************************************************)

\* User.findById(userId): a stored user, or null
UserFound(userId) == userId \in Users \cup UsersWithoutTradeUrl

\* user.tradeUrl is set
HasTradeUrl(userId) == userId \notin UsersWithoutTradeUrl

\* Mutant of NoItems: an empty result is not refused.
NoItemsNever(items) == FALSE

\* items.length === 0
NoItems(items) == items = {}

\* The response of joinJackpot to a request it does not pass on to
\* sendTradeOfferToUser, "none" for a request it passes on.  dbError: one of
\* its queries rejects and the outer catch answers.
JoinRefusal(userId, itemIds, dbError) ==
  IF itemIds = {} THEN "400 ids required"
  ELSE IF dbError THEN "500 error"
  ELSE IF ~UserFound(userId) THEN "404 user not found"
  ELSE IF ~HasTradeUrl(userId) THEN "200 no trade url"
  ELSE IF NoItems(ItemFind(itemIds)) THEN "404 no items found"
  ELSE "none"

\* joinJackpot up to its `await sendTradeOfferToUser(tradeUrl, items)`: the
\* body is validated, the round found, the user, the trade URL and the
\* items looked up; a request that fails a test is answered and ends.
JoinCall(p, userId, itemIds, dbError) ==
  /\ offers[p].stage = "none"
  /\ \A q \in OfferIds : q < p => offers[q].stage # "none"
  /\ LET refusal == JoinRefusal(userId, itemIds, dbError)
     IN  offers' = [offers EXCEPT ![p] =
           IF refusal = "none"
             THEN [NoOffer EXCEPT !.stage = "joining", !.userId = userId,
                                  !.itemIds = itemIds]
             ELSE [NoOffer EXCEPT !.stage = "refused", !.answer = refusal,
                                  !.userId = userId, !.itemIds = itemIds]]
  /\ UNCHANGED invoked
  /\ UNCHANGED <<ledgerVars, botVars, priceVars, joinVars>>

\* joinJackpot, from the settling of `await sendTradeOfferToUser(...)`: a
\* resolved send answers the request and calls trackTradeOffer, which issues
\* manager.getOffer; a rejected send answers 500 with the structured error
\* and tracks nothing.
JoinSendSettled(p, sent) ==
  /\ offers[p].stage = "joining"
  /\ offers' = [offers EXCEPT ![p] =
       IF sent
         THEN [@ EXCEPT !.stage = "fetching", !.answer = "200 offer sent",
                        !.remote = "Active"]
         ELSE [@ EXCEPT !.stage = "rejected", !.answer = "500 send error"]]
  /\ UNCHANGED invoked
  /\ UNCHANGED <<ledgerVars, botVars, priceVars, joinVars>>

\* The counterparty or the network settles the offer.
OfferSettles(p, st) ==
  /\ offers[p].remote = "Active"
  /\ st \in OfferStates \ {"Active"}
  /\ offers' = [offers EXCEPT ![p].remote = st]
  /\ UNCHANGED invoked
  /\ UNCHANGED <<ledgerVars, botVars, priceVars, joinVars>>

\* The callback of manager.getOffer: an error is logged and tracking ends;
\* otherwise setInterval starts the poll.
GetOfferCallback(p, err) ==
  /\ offers[p].stage = "fetching"
  /\ offers' = [offers EXCEPT ![p] =
       IF err THEN [@ EXCEPT !.stage = "fetchFailed"]
              ELSE [@ EXCEPT !.stage = "polling", !.state = offers[p].remote]]
  /\ UNCHANGED invoked
  /\ UNCHANGED <<ledgerVars, botVars, priceVars, joinVars>>

\* One tick of the 5 s interval: offer.update() is issued, whether or not
\* an earlier update is still in flight.
PollTick(p) ==
  /\ offers[p].stage = "polling"
  /\ offers[p].inflight < MaxInFlight
  /\ offers' = [offers EXCEPT ![p].inflight = @ + 1]
  /\ UNCHANGED invoked
  /\ UNCHANGED <<ledgerVars, botVars, priceVars, joinVars>>

\* Mutant of IsAccepted: a declined offer counts as accepted too.
IsAcceptedOrDeclined(state) == state \in {"Accepted", "Declined"}

\* Mutant of IsAccepted: no state counts as accepted.
IsAcceptedNever(state) == FALSE

\* Mutant of IsAccepted: every settled offer counts as accepted.
IsAcceptedOrSettled(state) == state \in {"Accepted", "Declined", "Expired"}

\* offer.state === ETradeOfferState.Accepted
IsAccepted(state) == state = "Accepted"

\* offer.state === ETradeOfferState.Declined
IsDeclined(state) == state = "Declined"

\* The callback of one offer.update(): on an error it returns; otherwise the
\* offer object carries the fetched state, Accepted clears the interval and
\* calls addUserToJackpot, Declined clears the interval.
UpdateCallback(p, err) ==
  /\ offers[p].inflight > 0
  /\ IF err
       THEN /\ offers' = [offers EXCEPT ![p].inflight = @ - 1]
            /\ UNCHANGED invoked
       ELSE LET state == offers[p].remote
            IN  /\ offers' = [offers EXCEPT
                      ![p].inflight = @ - 1,
                      ![p].state = state,
                      ![p].stage = IF IsAccepted(state) \/ IsDeclined(state)
                                     THEN "cleared" ELSE @]
                /\ invoked' =
                     IF IsAccepted(state)
                       THEN [invoked EXCEPT ![p] =
                               Append(@, [userId  |-> offers[p].userId,
                                          itemIds |-> offers[p].itemIds])]
                       ELSE invoked
  /\ UNCHANGED <<ledgerVars, botVars, priceVars, joinVars>>

NextTrack ==
  \/ \E p \in OfferIds, r \in JoinRequests, dbError \in BOOLEAN :
        JoinCall(p, r.userId, r.itemIds, dbError)
  \/ \E p \in OfferIds, sent \in BOOLEAN : JoinSendSettled(p, sent)
  \/ \E p \in OfferIds, st \in OfferStates : OfferSettles(p, st)
  \/ \E p \in OfferIds, err \in BOOLEAN : GetOfferCallback(p, err)
  \/ \E p \in OfferIds : PollTick(p)
  \/ \E p \in OfferIds, err \in BOOLEAN : UpdateCallback(p, err)

SpecTrack == InitNewRound /\ [][NextTrack]_vars

\* The steps of one join request and of the tracker of its offer.  The
\* trackers of different offers share no state.
TrackOf(p) ==
  \/ \E r \in JoinRequests, dbError \in BOOLEAN :
        JoinCall(p, r.userId, r.itemIds, dbError)
  \/ \E sent \in BOOLEAN : JoinSendSettled(p, sent)
  \/ \E st \in OfferStates : OfferSettles(p, st)
  \/ \E err \in BOOLEAN : GetOfferCallback(p, err)
  \/ PollTick(p)
  \/ \E err \in BOOLEAN : UpdateCallback(p, err)

\* One tracker under the scheduling its timer and the network give it: the
\* 5 s interval keeps ticking while it is set, and of the status queries
\* that are issued again and again, some succeed.
SpecTrackFair ==
  /\ InitNewRound
  /\ [][TrackOf(1)]_vars
  /\ WF_vars(PollTick(1))
  /\ SF_vars(UpdateCallback(1, FALSE))

(***************************************************************************)
(* Session Controller: steamTradeBot.js.                                   *)
(***************************************************************************)
MAX_LOGIN_ATTEMPTS == 10

MAX_RECONNECT_ATTEMPTS == 5

\* the EResult names of criticalErrors
criticalErrors ==
  { "NotLoggedOn", "NoConnection", "InvalidPassword", "Timeout",
    "ConnectFailed", "HandshakeFailed", "RemoteDisconnect", "AccountNotFound",
    "ServiceUnavailable", "RateLimitExceeded", "InvalidLoginAuthCode",
    "AccountLocked", "InvalidItemType" }

\* The results the client's 'error' event is modelled to carry: three of
\* criticalErrors (its first, one from its middle, its last) and two results
\* that are not in it.
EResults ==
  { "NotLoggedOn", "RemoteDisconnect", "InvalidItemType",
    "LoggedInElsewhere", "LogonSessionReplaced" }

\* client.logOn() on a client that is offline sends the log-on.  On a client
\* that is connecting or online the library refuses it: depending on its
\* version it throws from the call, or reports the refusal from a later
\* tick, where it is lost or ends the process.
LogOnOutcomes(client) ==
  IF client = "offline" THEN {"started"} ELSE {"throws", "ignored", "crashes"}

\* loginToSteam(): the new module state and how the call ended.
LoginToSteam(b, logOn) ==
  IF b.loginAttempts >= MAX_LOGIN_ATTEMPTS
    THEN [bot |-> [b EXCEPT !.process = "exited"], ended |-> "exited"]
  ELSE IF logOn = "throws"
    THEN [bot |-> b, ended |-> "threw"]
  ELSE IF logOn = "crashes"
    THEN [bot |-> [b EXCEPT !.process = "crashed"], ended |-> "exited"]
  ELSE [bot |-> [b EXCEPT
                   !.client = IF logOn = "started" THEN "connecting" ELSE @,
                   !.loginAttempts = @ + 1],
        ended |-> "returned"]

\* Mutant of ReconnectDelay: a linear backoff.
ReconnectDelayLinear(reconnectAttempts) == (reconnectAttempts + 1) * 1000

\* const delay = Math.pow(2, reconnectAttempts) * 1000, in milliseconds
ReconnectDelay(reconnectAttempts) == (2 ^ reconnectAttempts) * 1000

\* Mutant of AtReconnectCeiling: the ceiling is tested one request late.
AtReconnectCeilingLate(reconnectAttempts) ==
  reconnectAttempts > MAX_RECONNECT_ATTEMPTS

\* reconnectAttempts >= MAX_RECONNECT_ATTEMPTS
AtReconnectCeiling(reconnectAttempts) ==
  reconnectAttempts >= MAX_RECONNECT_ATTEMPTS

\* handleReconnect(): exit at the ceiling, else compute the delay, count the
\* attempt and schedule loginToSteam after the delay.
HandleReconnect(b) ==
  IF AtReconnectCeiling(b.reconnectAttempts)
    THEN [b EXCEPT !.process = "exited"]
    ELSE [b EXCEPT !.delays = Append(@, ReconnectDelay(b.reconnectAttempts)),
                   !.reconnectAttempts = @ + 1,
                   !.timers = @ + 1]

Running == bot.process = "running"

\* client.on('loggedOn').  The log-on that succeeded may be the one the
\* dispatcher's retry path started.
OnLoggedOn ==
  /\ Running
  /\ bot.client = "connecting"
  /\ bot' = [bot EXCEPT !.client = "online", !.loginAttempts = 0,
                        !.isLoggedIn = TRUE, !.lost = "no"]
  /\ send' = [send EXCEPT
                !.relogin = IF @ = "started" THEN "established" ELSE @]
  /\ UNCHANGED <<ledgerVars, trackVars, priceVars, joinVars>>

\* Mutant of IsCritical: every error counts as critical.
IsCriticalAlways(eresult) == TRUE

\* criticalErrors.includes(err.eresult)
IsCritical(eresult) == eresult \in criticalErrors

\* client.on('error'): the client is logged off when it emits 'error'.
OnError(eresult) ==
  /\ Running
  /\ bot.client \in {"connecting", "online"}
  /\ LET off == [bot EXCEPT !.client = "offline", !.lost = "no"]
     IN  bot' = IF IsCritical(eresult) THEN HandleReconnect(off) ELSE off
  /\ send' = [send EXCEPT
                !.relogin = IF @ = "started" THEN "failed" ELSE @]
  /\ UNCHANGED <<ledgerVars, trackVars, priceVars, joinVars>>

\* Mutant of OnDisconnected: the handler clears the flag first (the
\* assignment `isLoggedIn = false` that the source has commented out).
OnDisconnectedResetting ==
  /\ Running
  /\ bot.client = "online"
  /\ bot' = HandleReconnect([bot EXCEPT !.client = "connecting",
                                        !.lost = "no",
                                        !.isLoggedIn = FALSE,
                                        !.errorsOnly = FALSE])
  /\ UNCHANGED send
  /\ UNCHANGED <<ledgerVars, trackVars, priceVars, joinVars>>

\* client.on('disconnected'): a logged-on client lost its connection for a
\* non-fatal reason; with the default options of new SteamUser() it logs on
\* again by itself.
OnDisconnected ==
  /\ Running
  /\ bot.client = "online"
  /\ LET again == [bot EXCEPT !.client = "connecting", !.lost = "no"]
     IN  bot' = IF ~bot.isLoggedIn
                  THEN HandleReconnect([again EXCEPT !.errorsOnly = FALSE])
                  ELSE again
  /\ UNCHANGED send
  /\ UNCHANGED <<ledgerVars, trackVars, priceVars, joinVars>>

\* client.on('webSession'): the cookies are handed to manager and community.
OnWebSession ==
  /\ Running
  /\ bot.client = "online"
  /\ bot' = [bot EXCEPT !.cookies = TRUE]
  /\ UNCHANGED send
  /\ UNCHANGED <<ledgerVars, trackVars, priceVars, joinVars>>

\* The connection of a logged-on client dies and the client emits neither
\* 'error' nor 'disconnected'.
SilentLoss ==
  /\ Running
  /\ bot.client = "online"
  /\ bot.lost = "no"
  /\ bot' = [bot EXCEPT !.lost = "silent"]
  /\ UNCHANGED send
  /\ UNCHANGED <<ledgerVars, trackVars, priceVars, joinVars>>

\* A setTimeout(loginToSteam, delay) of handleReconnect fires.  Nothing
\* catches an exception of the callback: it ends the process.
ReconnectTimerFires(logOn) ==
  /\ Running
  /\ bot.timers > 0
  /\ logOn \in LogOnOutcomes(bot.client)
  /\ LET login == LoginToSteam([bot EXCEPT !.timers = @ - 1], logOn)
     IN  bot' = IF login.ended = "threw"
                  THEN [login.bot EXCEPT !.process = "crashed"]
                  ELSE login.bot
  /\ UNCHANGED send
  /\ UNCHANGED <<ledgerVars, trackVars, priceVars, joinVars>>

\* the heartbeat interval (60 s)
Heartbeat ==
  /\ Running
  /\ LET seen == [bot EXCEPT !.lost = IF @ = "silent" THEN "checked" ELSE @]
     IN  bot' = IF ~bot.isLoggedIn
                  THEN HandleReconnect([seen EXCEPT !.errorsOnly = FALSE])
                  ELSE seen
  /\ UNCHANGED send
  /\ UNCHANGED <<ledgerVars, trackVars, priceVars, joinVars>>

\* process.on('SIGINT') and process.on('SIGTERM'): client.logOff(), exit(0)
Shutdown ==
  /\ Running
  /\ bot' = [bot EXCEPT !.client = "offline", !.process = "stopped"]
  /\ UNCHANGED send
  /\ UNCHANGED <<ledgerVars, trackVars, priceVars, joinVars>>

(***************************************************************************)
(* Offer Dispatcher: sendTradeOfferToUser(tradeUrl, items, attempt = 1).   *)
(***************************************************************************)
MAX_RETRY_ATTEMPTS == 1

tradeResponseErrors ==
  { "Accepted", "Declined", "Trade Banned Initiator", "Trade Banned Target",
    "Target Already Trading", "Disabled", "Not Logged In", "Cancel",
    "Too Soon", "Too Soon Penalty", "Connection Failed", "Already Trading",
    "Already Has Trade Request", "No Response" }

\* err.message of a failed tradeOffer.send(): a listed message, or another
SendErrors == tradeResponseErrors \cup {"Initiator Blocked Target"}

\* Mutant of CanRetry: one retry too many.
CanRetryTwice(attempt) == attempt <= MAX_RETRY_ATTEMPTS + 1

\* attempt <= MAX_RETRY_ATTEMPTS
CanRetry(attempt) == attempt <= MAX_RETRY_ATTEMPTS

\* Mutant of IsNotLoggedIn: a banned target is retried as well.
IsNotLoggedInOrBanned(message) ==
  message \in {"Not Logged In", "Trade Banned Target"}

\* err.message === "Not Logged In"
IsNotLoggedIn(message) == message = "Not Logged In"

\* err.message === "Trade Banned Target"
IsTradeBannedTarget(message) == message = "Trade Banned Target"

\* A call by joinJackpot: the offer is built and tradeOffer.send() issued.
SubmitCall ==
  /\ Running
  /\ send.pc \in {"idle", "settled"}
  /\ send' = [NoSend EXCEPT !.pc = "sending", !.submissions = 1]
  /\ UNCHANGED bot
  /\ UNCHANGED <<ledgerVars, trackVars, priceVars, joinVars>>

Settled(s, result) == [s EXCEPT !.pc = "settled", !.result = result]

\* The callback of tradeOffer.send() for the current attempt.  err = "none"
\* is a successful send.  In the "Not Logged In" branch loginToSteam() runs
\* and, as it returns no promise, the resubmission follows in the same turn
\* of the event loop.
SendCallback(err, logOn) ==
  /\ Running
  /\ send.pc = "sending"
  /\ logOn \in LogOnOutcomes(bot.client)
  /\ IF err = "none"
       THEN /\ send' = Settled(send, "SENT")
            /\ UNCHANGED bot
     ELSE LET s == [send EXCEPT !.errs = Append(@, err)]
          IN
          IF err \notin tradeResponseErrors
            THEN /\ send' = Settled(s, "UNKNOWN_ERROR")
                 /\ UNCHANGED bot
          ELSE IF ~CanRetry(send.attempt)
            THEN /\ send' = Settled(s, "MAX_RETRY_ATTEMPTS")
                 /\ UNCHANGED bot
          ELSE IF IsNotLoggedIn(err)
            THEN LET login == LoginToSteam(bot, logOn)
                     t     == [s EXCEPT
                                 !.logins = @ + 1,
                                 !.relogin =
                                    CASE login.ended = "threw" -> "threw"
                                      [] login.ended = "exited" -> "none"
                                      [] logOn = "started" -> "started"
                                      [] OTHER -> "refused"]
                 IN  /\ bot' = login.bot
                     /\ send' =
                          CASE login.ended = "returned" ->
                                 [t EXCEPT !.attempt = @ + 1,
                                           !.submissions = @ + 1]
                            [] login.ended = "threw" ->
                                 Settled(t, "LOGIN_FAILURE")
                            [] OTHER -> [t EXCEPT !.pc = "aborted"]
          ELSE IF IsTradeBannedTarget(err)
            THEN /\ send' = Settled(s, "TRADE_BANNED_TARGET")
                 /\ UNCHANGED bot
          ELSE \* a listed message with no branch: neither resolve nor reject
               /\ send' = [s EXCEPT !.pc = "hung"]
               /\ UNCHANGED bot
  /\ UNCHANGED <<ledgerVars, trackVars, priceVars, joinVars>>

NextBot ==
  \/ OnLoggedOn
  \/ \E eresult \in EResults : OnError(eresult)
  \/ OnDisconnected
  \/ OnWebSession
  \/ SilentLoss
  \/ Shutdown
  \/ \E logOn \in {"started", "throws", "ignored", "crashes"} :
        ReconnectTimerFires(logOn)
  \/ Heartbeat
  \/ SubmitCall
  \/ \E err \in SendErrors \cup {"none"},
        logOn \in {"started", "throws", "ignored", "crashes"} :
        SendCallback(err, logOn)

SpecBot == InitNewRound /\ [][NextBot]_vars

(***************************************************************************)
(* Inventory valuation: utils/getInventory.js.                             *)
(***************************************************************************)

\* market_hash_name of the descriptions of the inventory that is valued
MarketNames == {"A", "B", "D"}

\* marketApiResponse.data: the list of {name, price} the API serves, as a
\* map; list 2 carries a new price for A.  B is in neither list.
MarketPrices(list) ==
  IF list = 1
    THEN [n \in {"A", "D"} |-> IF n = "A" THEN "5 USD" ELSE "12x"]
    ELSE [n \in {"A", "D"} |-> IF n = "A" THEN "6 USD" ELSE "12x"]

\* createMarketPriceMap and groupAssetsByMarketHashName:
\* price: marketPriceMap[market_hash_name] || '0 USD'
GroupedPrices(list) ==
  [n \in MarketNames |->
     IF n \in DOMAIN MarketPrices(list) THEN MarketPrices(list)[n]
     ELSE "0 USD"]

\* !marketPriceCache || Date.now() - lastCacheTime > CACHE_DURATION
CacheExpired(m) ==
  m.marketPriceCache = 0 \/ m.now - m.lastCacheTime > CACHE_DURATION

\* the object getInventory returns from its catch block (handleError)
HandleError == [pc |-> "returned", error |-> TRUE, prices |-> <<>>]

\* the data object getInventory returns, its items priced from the list
Priced(list) ==
  [pc |-> "returned", error |-> FALSE, prices |-> GroupedPrices(list)]

\* getInventory(appid, steamid): without a steamid it throws; otherwise the
\* inventory request is issued.
GetInventoryCall(c, steamid) ==
  /\ market.lookups[c].pc = "idle"
  /\ \A d \in LookupIds : d < c => market.lookups[d].pc # "idle"
  /\ market' = [market EXCEPT !.lookups[c].pc =
                   IF steamid THEN "inventory" ELSE "threw"]
  /\ UNCHANGED <<ledgerVars, trackVars, botVars, joinVars>>

\* The inventory request settles.  A rejection is returned by handleError;
\* otherwise fetchMarketPrices runs: with an expired or empty cache it
\* issues the price request, else it returns the cached list.
InventoryDone(c, ok) ==
  /\ market.lookups[c].pc = "inventory"
  /\ market' = [market EXCEPT !.lookups[c] =
       IF ~ok THEN HandleError
       ELSE IF CacheExpired(market) THEN [@ EXCEPT !.pc = "prices"]
       ELSE Priced(market.marketPriceCache)]
  /\ UNCHANGED <<ledgerVars, trackVars, botVars, joinVars>>

\* The price request settles.  A rejection leaves fetchMarketPrices as an
\* exception that getInventory's catch block returns by handleError;
\* otherwise the cache and its time are set and the list is used.
PricesDone(c, ok) ==
  /\ market.lookups[c].pc = "prices"
  /\ market' =
       IF ok
         THEN [market EXCEPT !.marketPriceCache = market.api,
                             !.lastCacheTime = market.now,
                             !.lookups[c] = Priced(market.api)]
         ELSE [market EXCEPT !.lookups[c] = HandleError]
  /\ UNCHANGED <<ledgerVars, trackVars, botVars, joinVars>>

\* time passes
ClockTick ==
  /\ market.now < (NumTicks + 1) * ClockStep
  /\ market' = [market EXCEPT !.now = @ + ClockStep]
  /\ UNCHANGED <<ledgerVars, trackVars, botVars, joinVars>>

\* the price API starts to serve the new list
ApiChanges ==
  /\ market.api = 1
  /\ market' = [market EXCEPT !.api = 2]
  /\ UNCHANGED <<ledgerVars, trackVars, botVars, joinVars>>

NextPrices ==
  \/ \E c \in LookupIds, steamid \in BOOLEAN : GetInventoryCall(c, steamid)
  \/ \E c \in LookupIds, ok \in BOOLEAN : InventoryDone(c, ok)
  \/ \E c \in LookupIds, ok \in BOOLEAN : PricesDone(c, ok)
  \/ ClockTick
  \/ ApiChanges

SpecPrices == InitNewRound /\ [][NextPrices]_vars

(***************************************************************************)
(* joinJackpot, lines 222-236: the request finds or creates the active     *)
(* round.  (JoinCall above takes the round as found; here the two awaits   *)
(* of the round lookup are followed one by one.)                           *)
(***************************************************************************)

ActiveStatuses == {"in_progress", "waiting"}

\* the stored rounds that are waiting or in progress
ActiveRounds(rounds) ==
  { k \in 1 .. Len(rounds) : rounds[k] \in ActiveStatuses }

\* Jackpot.findOne({ status: { $in: ['in_progress', 'waiting'] } }): the
\* first stored document that matches, 0 for null
FindOneActive(rounds) ==
  IF ActiveRounds(rounds) = {} THEN 0
  ELSE CHOOSE k \in ActiveRounds(rounds) :
         \A m \in ActiveRounds(rounds) : k <= m

\* The request arrives: a body without userId or itemIds is answered 400;
\* otherwise Jackpot.findOne is issued.
JoinLookup(j, valid) ==
  /\ lobby.joins[j].pc = "idle"
  /\ \A i \in JoinIds : i < j => lobby.joins[i].pc # "idle"
  /\ lobby' = [lobby EXCEPT !.joins[j].pc =
                  IF valid THEN "findOne" ELSE "refused"]
  /\ UNCHANGED <<ledgerVars, trackVars, botVars, priceVars>>

\* Jackpot.findOne settles.  A rejection is answered 500 by the outer
\* catch.  With an active round the request goes on with it; with none,
\* new Jackpot({status: 'waiting', ...}) is built and its save is issued.
FindOneDone(j, ok) ==
  /\ lobby.joins[j].pc = "findOne"
  /\ lobby' = [lobby EXCEPT !.joins[j] =
       IF ~ok THEN [@ EXCEPT !.pc = "failed"]
       ELSE IF FindOneActive(lobby.rounds) = 0 THEN [@ EXCEPT !.pc = "create"]
       ELSE [pc |-> "found", jackpot |-> FindOneActive(lobby.rounds)]]
  /\ UNCHANGED <<ledgerVars, trackVars, botVars, priceVars>>

\* jackpot.save() of the new document settles: the document is stored, or
\* the rejection is answered 500.
CreateDone(j, ok) ==
  /\ lobby.joins[j].pc = "create"
  /\ lobby' =
       IF ok
         THEN [lobby EXCEPT !.rounds = Append(@, "waiting"),
                            !.joins[j] = [pc |-> "found",
                                          jackpot |-> Len(lobby.rounds) + 1]]
         ELSE [lobby EXCEPT !.joins[j].pc = "failed"]
  /\ UNCHANGED <<ledgerVars, trackVars, botVars, priceVars>>

\* A credit's round save stores the status in_progress for round k.
RoundStarts(k) ==
  /\ k \in 1 .. Len(lobby.rounds)
  /\ lobby.rounds[k] = "waiting"
  /\ lobby' = [lobby EXCEPT !.rounds[k] = "in_progress"]
  /\ UNCHANGED <<ledgerVars, trackVars, botVars, priceVars>>

\* The external round manager completes round k.
RoundEnds(k) ==
  /\ k \in 1 .. Len(lobby.rounds)
  /\ lobby.rounds[k] = "in_progress"
  /\ lobby' = [lobby EXCEPT !.rounds[k] = "completed"]
  /\ UNCHANGED <<ledgerVars, trackVars, botVars, priceVars>>

NextJoin ==
  \/ \E j \in JoinIds, valid \in BOOLEAN : JoinLookup(j, valid)
  \/ \E j \in JoinIds, ok \in BOOLEAN : FindOneDone(j, ok)
  \/ \E j \in JoinIds, ok \in BOOLEAN : CreateDone(j, ok)
  \/ \E k \in JoinIds : RoundStarts(k)
  \/ \E k \in JoinIds : RoundEnds(k)

SpecJoin == InitNewRound /\ [][NextJoin]_vars

(***************************************************************************)
(* Properties of the round lookup.                                         *)
(***************************************************************************)

\* C34: at most one stored round is waiting or in progress, also when
\* join requests interleave between their lookup and their save.
C34_OneActiveRound == Cardinality(ActiveRounds(lobby.rounds)) <= 1

(***************************************************************************)
(* Properties of the inventory valuation.                                  *)
(***************************************************************************)

\* C27: when the price request of a call fails while the cache holds an
\* earlier list, the call returns without an error, its items priced from
\* that list.
C27_StaleCacheFallback ==
  [][ \A c \in LookupIds :
        (PricesDone(c, FALSE) /\ market.marketPriceCache # 0) =>
           market'.lookups[c] = Priced(market.marketPriceCache) ]_vars

(***************************************************************************)
(* Properties of the Offer Tracker.                                        *)
(***************************************************************************)

OfferArgs(p) == [userId |-> offers[p].userId, itemIds |-> offers[p].itemIds]

\* C1: once a poll has observed an offer Accepted (and so has cleared the
\* interval), addUserToJackpot has been invoked exactly once for it, with
\* the offer's userId and itemIds.
C1_CreditedExactlyOnce ==
  \A p \in OfferIds :
     (offers[p].stage = "cleared" /\ offers[p].state = "Accepted")
       => invoked[p] = <<OfferArgs(p)>>

\* C2: addUserToJackpot has been invoked for an offer only if the offer was
\* sent and fetched, a poll has observed it Accepted, and the trading
\* network holds it as Accepted; every invocation carries the offer's
\* arguments.
C2_CreditOnlyAfterAccepted ==
  \A p \in OfferIds :
     invoked[p] # <<>> =>
       /\ offers[p].stage = "cleared"
       /\ offers[p].state = "Accepted"
       /\ offers[p].remote = "Accepted"
       /\ \A k \in 1 .. Len(invoked[p]) : invoked[p][k] = OfferArgs(p)

\* C2 witness: one offer was accepted and credited while the other offers
\* (rejected send, failed fetch, declined, still active) were not.
C2_Witness ==
  /\ invoked[1] # <<>>
  /\ offers[1].remote = "Accepted"
  /\ offers[2].remote = "Declined" /\ offers[2].stage = "cleared"
  /\ invoked[2] = <<>>

\* C21: an offer the network holds as Declined never has addUserToJackpot
\* invoked for it, so no participant entry and no change of the round's
\* total can come from it; once a poll has observed it Declined the interval
\* is cleared, no further status query is issued, and the round is as it
\* was.
C21_DeclinedHasNoLedgerEffect ==
  /\ [](\A p \in OfferIds :
          offers[p].remote = "Declined" =>
             /\ invoked[p] = <<>>
             /\ jackpot = NewJackpot)
  /\ [][ \A p \in OfferIds :
            /\ (UpdateCallback(p, FALSE) /\ offers[p].remote = "Declined") =>
                  offers'[p].stage = "cleared" /\ invoked' = invoked
            /\ offers[p].stage = "cleared" =>
                  /\ offers'[p].stage = "cleared"
                  /\ offers'[p].inflight <= offers[p].inflight ]_vars

\* C21 witness: the poll of an offer observed it Declined and stopped; no
\* credit was invoked for it.
C21_Witness ==
  /\ offers[1].stage = "cleared" /\ offers[1].state = "Declined"
  /\ offers[1].inflight = 0
  /\ invoked[1] = <<>>

\* C22: a status query that fails, or that finds the offer in a terminal
\* state other than Accepted and Declined, ends the polling of the offer
\* and invokes no credit.
C22_OtherTerminalStopsPolling ==
  [][ \A p \in OfferIds :
        ( \/ UpdateCallback(p, TRUE)
          \/ UpdateCallback(p, FALSE) /\ offers[p].remote = "Expired" ) =>
           /\ offers'[p].stage # "polling"
           /\ invoked' = invoked ]_vars

Tracked == {"fetching", "fetchFailed", "polling", "cleared"}

C28_OneQueryInFlight ==
  \A p \in OfferIds : offers[p].inflight <= 1

(***************************************************************************)
(* Properties of the Offer Dispatcher.                                     *)
(***************************************************************************)

\* C9: whenever a call of sendTradeOfferToUser has no send outstanding and
\* the process runs, the call has settled: resolved with the handle or
\* rejected with a structured error.
C9_SubmitAlwaysSettles ==
  (Running /\ send.pc \notin {"idle", "sending"}) =>
     /\ send.pc = "settled"
     /\ send.result \in {"SENT", "TRADE_BANNED_TARGET", "LOGIN_FAILURE",
                         "MAX_RETRY_ATTEMPTS", "UNKNOWN_ERROR"}

FirstNotLoggedIn == send.errs # <<>> /\ send.errs[1] = "Not Logged In"

\* C10 as stated: a settled call whose first submission failed with
\* "Not Logged In" has made exactly one re-login and exactly one
\* resubmission, and is MaxRetryExceeded if that one failed the same way.
C10_OneReloginOneResubmission ==
  (send.pc = "settled" /\ FirstNotLoggedIn) =>
     /\ send.logins = 1
     /\ send.submissions = 2
     /\ (Len(send.errs) = 2 /\ send.errs[2] = "Not Logged In")
          => send.result = "MAX_RETRY_ATTEMPTS"

\* C10 as amended: a call makes at most two submissions and one re-login;
\* the re-login is made exactly for a first "Not Logged In"; after it the
\* call either resubmits once, or, when loginToSteam threw, settles as
\* LOGIN_FAILURE without resubmitting (or the process has ended); a
\* resubmission that fails with "Not Logged In" settles MAX_RETRY_ATTEMPTS.
C10_AtMostOneRetry ==
  /\ send.submissions <= 2 /\ send.logins <= 1
  /\ send.submissions = 2 => send.logins = 1
  /\ send.logins = 1 <=> FirstNotLoggedIn
  /\ (send.pc = "settled" /\ FirstNotLoggedIn) =>
        \/ send.submissions = 1 /\ send.result = "LOGIN_FAILURE"
        \/ /\ send.submissions = 2
           /\ send.result # "LOGIN_FAILURE"
           /\ (Len(send.errs) = 2 /\ send.errs[2] = "Not Logged In")
                => send.result = "MAX_RETRY_ATTEMPTS"

\* C10 witness: both submissions failed with "Not Logged In".
C10_Witness ==
  /\ send.pc = "settled"
  /\ send.errs = <<"Not Logged In", "Not Logged In">>
  /\ send.logins = 1 /\ send.submissions = 2
  /\ send.result = "MAX_RETRY_ATTEMPTS"

\* A step in which the send callback handled a failed submission, and the
\* err.message it handled.
SendFailed == Len(send'.errs) = Len(send.errs) + 1

FailureMessage == send'.errs[Len(send'.errs)]

\* C11: a failed submission whose message is not "Not Logged In" (a banned
\* target among them) makes the call neither log in nor submit again: the
\* step that handles it leaves the bot, the call's count of log-ins and its
\* count of submissions as they were and leaves no send outstanding; and a
\* "Trade Banned Target" is always the last failure of its call.
C11_OnlyNotLoggedInRetries ==
  /\ [][ (SendFailed /\ FailureMessage # "Not Logged In") =>
            /\ bot' = bot
            /\ send'.logins = send.logins
            /\ send'.submissions = send.submissions
            /\ send'.pc # "sending" ]_vars
  /\ [](\A k \in 1 .. Len(send.errs) :
           send.errs[k] = "Trade Banned Target" =>
              k = Len(send.errs) /\ send.pc # "sending")

\* C11 witness: a first submission refused for a banned target was rejected
\* as such, after one submission and no log-in.
C11_Witness ==
  /\ send.pc = "settled"
  /\ send.errs = <<"Trade Banned Target">>
  /\ send.result = "TRADE_BANNED_TARGET"
  /\ send.logins = 0 /\ send.submissions = 1

\* C12: a call whose last submission failed with "Trade Banned Target", be
\* it the first submission or the resubmission, is rejected with the code
\* TRADE_BANNED_TARGET.
C12_BannedTargetIsDistinct ==
  (send.errs # <<>> /\ send.errs[Len(send.errs)] = "Trade Banned Target") =>
     /\ send.pc = "settled"
     /\ send.result = "TRADE_BANNED_TARGET"

\* what the Session Controller knows of the session: logged on, cookies set
Usable == bot.isLoggedIn /\ bot.client = "online" /\ bot.cookies

\* a step in which sendTradeOfferToUser is called
SubmitCalled ==
  send.pc \in {"idle", "settled"} /\ send' # send /\ bot' = bot

\* C13: a call of sendTradeOfferToUser made while the session is not usable
\* is rejected at once as SessionUnavailable and submits nothing.
C13_UnusableSessionFailsFast ==
  [][ (SubmitCalled /\ ~Usable) =>
         /\ send'.pc = "settled"
         /\ send'.result = "SESSION_UNAVAILABLE"
         /\ send'.submissions = 0 ]_vars

\* C14: when the log-on of the retry path has failed, by loginToSteam
\* throwing or by the handshake it started ending in an 'error' event, the
\* call made one submission only and is rejected as LOGIN_FAILURE.
C14_ReloginFailureIsLoginFailure ==
  send.relogin \in {"threw", "failed"} =>
     /\ send.submissions = 1
     /\ send.pc = "settled"
     /\ send.result = "LOGIN_FAILURE"

(***************************************************************************)
(* Properties of the Session Controller.                                   *)
(***************************************************************************)

\* a step in which handleReconnect scheduled a log-in
ReconnectScheduled == bot'.timers = bot.timers + 1

\* a step of the 'loggedOn' handler
LoggedOn == bot.client = "connecting" /\ bot'.client = "online"

\* a step in which loginToSteam() was called, by a reconnect timer or by the
\* retry path of sendTradeOfferToUser
LoginCalled ==
  bot'.timers = bot.timers - 1 \/ send'.logins = send.logins + 1

C16_ReconnectCeiling ==
  /\ [](bot.reconnectAttempts <= 5 /\ Len(bot.delays) <= 5)
  /\ [][ ( /\ bot.reconnectAttempts >= 5
           /\ \/ \E eresult \in EResults \cap criticalErrors :
                    OnError(eresult)
              \/ Heartbeat /\ ~bot.isLoggedIn ) =>
            /\ bot'.process = "exited"
            /\ bot'.timers = bot.timers
            /\ bot'.delays = bot.delays
            /\ bot'.loginAttempts = bot.loginAttempts ]_vars

\* C16 witness: the sixth critical error found the counter at 5 and ended
\* the process after five scheduled reconnects.
C16_Witness ==
  /\ bot.process = "exited" /\ bot.loginAttempts < 10
  /\ bot.errorsOnly
  /\ bot.reconnectAttempts = 5
  /\ Len(bot.delays) = 5

\* C17: the 'loggedOn' event sets reconnectAttempts to 0, and no other step
\* sets it to 0.
C17_ReconnectCountResetOnLogin ==
  [][ IF LoggedOn
        THEN bot'.reconnectAttempts = 0
        ELSE bot'.reconnectAttempts = 0 => bot.reconnectAttempts = 0 ]_vars

\* C18: a call of loginToSteam() that leaves the process running adds one to
\* loginAttempts; a call made with loginAttempts >= 10 ends the process and
\* sends no log-on; the 'loggedOn' event sets loginAttempts to 0 and
\* isLoggedIn to true.
C18_LoginCountsAttempts ==
  [][ /\ (LoginCalled /\ bot'.process = "running") =>
            bot'.loginAttempts = bot.loginAttempts + 1
      /\ (LoginCalled /\ bot.loginAttempts >= 10) =>
            bot'.process = "exited" /\ bot'.client = bot.client
      /\ LoggedOn => bot'.loginAttempts = 0 /\ bot'.isLoggedIn ]_vars

\* C19: the first heartbeat after a logged-on session was lost silently
\* requests a reconnect: it schedules a log-in, or ends the process at the
\* reconnect ceiling.
C19_HeartbeatDetectsSilentLoss ==
  [][ (bot.lost = "silent" /\ bot'.lost = "checked") =>
         \/ ReconnectScheduled
         \/ bot'.process = "exited" ]_vars

\* C20: an 'error' event whose eresult is not in criticalErrors schedules
\* nothing and changes neither counter, whatever the state it arrives in.
C20_NonCriticalErrorIgnored ==
  [][ \A eresult \in EResults \ criticalErrors :
         OnError(eresult) =>
            /\ bot'.loginAttempts = bot.loginAttempts
            /\ bot'.reconnectAttempts = bot.reconnectAttempts
            /\ bot'.timers = bot.timers
            /\ bot'.delays = bot.delays
            /\ bot'.process = bot.process ]_vars

\* C20 witness: a logged-on bot is offline after a non-critical error (a
\* critical one would have counted a reconnect), with nothing scheduled
\* and both counters as they were.
C20_Witness ==
  /\ Running
  /\ bot.client = "offline" /\ bot.isLoggedIn
  /\ bot.timers = 0 /\ bot.reconnectAttempts = 0 /\ bot.loginAttempts = 0

\* a step in which sendTradeOfferToUser resubmitted the offer
Resubmitted ==
  send.submissions >= 1 /\ send'.submissions = send.submissions + 1

\* C29: the offer is resubmitted only when the log-on the retry path asked
\* for has been established, that is, after a 'loggedOn' event that
\* followed the call of loginToSteam().
C29_ResubmitAfterEstablished ==
  [][ Resubmitted => send.relogin = "established" ]_vars

\* C30: loginToSteam() is called only by a reconnect timer whose backoff
\* delay has elapsed or while the client is logged out; never while the
\* client is logged on, and never by sendTradeOfferToUser.
C30_LoginOnlyWhenLoggedOut ==
  [][ LoginCalled =>
        /\ bot'.timers = bot.timers - 1 \/ bot.client = "offline"
        /\ bot.client # "online"
        /\ send'.logins = send.logins ]_vars

\* the logins that are pending: the reconnect timers not yet fired, and
\* the log-on handshake in flight
PendingLogins == bot.timers + (IF bot.client = "connecting" THEN 1 ELSE 0)

\* C36: at most one login is pending: never two reconnect timers, and never
\* a reconnect timer together with a log-on handshake in flight.
C36_OneLoginPending == PendingLogins <= 1

\* C39: isLoggedIn is set only by the 'loggedOn' event and no step clears
\* it; while it is set, a reconnect is scheduled only by the handler of
\* 'error' for a critical eresult: the handler of 'disconnected' and the
\* heartbeat schedule nothing and leave both counters as they are.
C39_LoggedInFlagIsNeverCleared ==
  [][ /\ bot.isLoggedIn => bot'.isLoggedIn
      /\ (~bot.isLoggedIn /\ bot'.isLoggedIn) => LoggedOn
      /\ bot.isLoggedIn =>
            /\ ReconnectScheduled =>
                  \E eresult \in criticalErrors : OnError(eresult)
            /\ bot'.errorsOnly = bot.errorsOnly
            /\ (OnDisconnected \/ Heartbeat) =>
                  /\ bot'.timers = bot.timers
                  /\ bot'.delays = bot.delays
                  /\ bot'.reconnectAttempts = bot.reconnectAttempts
                  /\ bot'.process = bot.process ]_vars

\* C39 witness: after the bot had logged on, its session was lost without
\* an event and a heartbeat has run since: the flag is still set and no
\* reconnect was ever scheduled.
C39_Witness ==
  /\ bot.isLoggedIn
  /\ bot.lost = "checked"
  /\ bot.delays = <<>>
  /\ bot.timers = 0
  /\ bot.process = "running"

(***************************************************************************)
(* Properties of the Round Ledger.                                         *)
(***************************************************************************)

\* The valuation of each item as the specification's scenarios state it:
\* A is worth 5, B 3, D 12; C (non-numeric price) and E (no price) are worth 0.
Valuation(i) ==
  CASE i = "A" -> 5 [] i = "B" -> 3 [] i = "D" -> 12 [] OTHER -> 0

RECURSIVE ValuationOf(_)
ValuationOf(items) ==
  IF items = {} THEN 0
  ELSE LET i == CHOOSE x \in items : TRUE
       IN  Valuation(i) + ValuationOf(items \ {i})

RECURSIVE CreditedValuation(_)
CreditedValuation(participants) ==
  IF participants = <<>> THEN 0
  ELSE ValuationOf(Head(participants).items)
         + CreditedValuation(Tail(participants))

\* credit c's round save resolves in this step
RoundSaved(c) == credits[c].pc = "saveJackpot" /\ credits'[c].pc = "saveUser"

CreditEntry(c) == [user |-> credits[c].userId, items |-> credits[c].itemIds]

EntriesOf(u, participants) ==
  { k \in 1 .. Len(participants) : participants[k].user = u }

StatusRank(st) ==
  CASE st = "waiting" -> 0 [] st = "in_progress" -> 1 [] OTHER -> 2

\* C3: while credits run one at a time, the stored totalValue is the sum of
\* the valuations of all items credited into the round, and every round save
\* raises totalValue by the valuation of the credit's items and records the
\* entry (userId, itemIds) of that credit.
C3_SerialTotalIsCreditedValue ==
  /\ [](~interleaved =>
          jackpot.totalValue = CreditedValuation(jackpot.participants))
  /\ [][\A c \in CreditIds :
          (~interleaved /\ RoundSaved(c)) =>
             /\ jackpot'.totalValue =
                  jackpot.totalValue + ValuationOf(credits[c].itemIds)
             /\ jackpot'.participants =
                  Append(jackpot.participants, CreditEntry(c))]_vars

\* C3 witness: from the new round, the credit of u1's A and B (5 + 3) and
\* then the credit of u2's D have run one after the other: 8 + 12 = 20.
C3_Witness ==
  /\ ~interleaved
  /\ credits[1].pc = "done" /\ credits[1].itemIds = {"A", "B"}
  /\ credits[2].pc = "done" /\ credits[2].itemIds = {"D"}
  /\ jackpot.totalValue = 20
  /\ jackpot.participants =
       <<[user |-> "u1", items |-> {"A", "B"}], [user |-> "u2", items |-> {"D"}]>>

\* C4: once all credits have finished, also after interleaving, the stored
\* round holds every credit's entry and its totalValue includes every added
\* value.
C4_NoLostUpdate ==
  (\A c \in CreditIds : credits[c].pc = "done") =>
     /\ \A c \in CreditIds :
          \E k \in 1 .. Len(jackpot.participants) :
             jackpot.participants[k] = CreditEntry(c)
     /\ jackpot.totalValue = CreditedValuation(jackpot.participants)

\* C5: the stored round moves from waiting to in_progress exactly in the
\* steps in which the number of distinct user ids among its participants
\* crosses from below 2 to at least 2.
C5_StartsIffCrossing ==
  [][(jackpot.status = "waiting" /\ jackpot'.status = "in_progress")
       <=> (/\ Cardinality(UniqueUserIds(jackpot.participants)) < 2
            /\ Cardinality(UniqueUserIds(jackpot'.participants)) >= 2)]_vars

\* C6: startRoundTimer() is invoked at most once for the round.
C6_TimerStartedOnce == timerStarts <= 1

\* C7 as stated: a userId appears at most once among the participants.
C7_UserAtMostOnce ==
  \A u \in Users : Cardinality(EntriesOf(u, jackpot.participants)) <= 1

\* C7 as amended: the participants change only by a round save, which
\* appends one entry (userId, itemIds) of its credit and leaves every
\* existing entry as it is, also when the user already has an entry.
C7_EveryCreditAppendsEntry ==
  [][/\ \A c \in CreditIds :
          RoundSaved(c) =>
             jackpot'.participants = Append(jackpot.participants, CreditEntry(c))
     /\ jackpot'.participants # jackpot.participants =>
          \E c \in CreditIds : RoundSaved(c)]_vars

\* C7 witness: u1 was credited twice and has two entries.
C7_Witness ==
  /\ \A c \in CreditIds : credits[c].pc = "done" /\ credits[c].userId = "u1"
  /\ Cardinality(EntriesOf("u1", jackpot.participants)) = 2

\* C8: the stored status never moves backward.
C8_StatusOnlyForward ==
  [][StatusRank(jackpot'.status) >= StatusRank(jackpot.status)]_vars

\* a step in which credit c ended in its catch block
Failed(c) == credits[c].pc # "failed" /\ credits'[c].pc = "failed"

\* a step in which the participants event was emitted
Published == published' # published

\* C24: a credit one of whose awaits rejects returns from its catch block:
\* the step publishes no event, leaves the stored round, the stored users
\* and every other credit as they are, and the credit stays failed; and an
\* event is published only by a credit that completes.
C24_FailedCreditIsSilent ==
  [][ /\ \A c \in CreditIds :
           /\ Failed(c) =>
                /\ published' = published
                /\ jackpot' = jackpot /\ users' = users
                /\ timerStarts' = timerStarts
                /\ \A d \in CreditIds \ {c} : credits'[d] = credits[d]
           /\ credits[c].pc = "failed" => credits'[c] = credits[c]
      /\ Published =>
           \E c \in CreditIds :
              credits[c].pc = "saveUser" /\ credits'[c].pc = "done" ]_vars

\* C24 witness: the first credit failed at user.save(), after its round
\* save: its entry is stored, nothing was published, the inventory is as
\* it was.
C24_Witness ==
  /\ credits[1].pc = "failed" /\ credits[2].pc = "idle"
  /\ jackpot.participants =
       <<[user |-> credits[1].userId, items |-> credits[1].itemIds]>>
  /\ published = <<>>
  /\ users = [u \in Users |-> InitialInventory(u)]

\* C25: the participants event is emitted only by the step that ends a
\* credit after its user save, and it carries the stored round's full
\* participant list of that moment.
C25_PublishedListIsCurrent ==
  [][ Published =>
        /\ \E c \in CreditIds :
              credits[c].pc = "saveUser" /\ credits'[c].pc = "done"
        /\ published' = Append(published, jackpot'.participants) ]_vars

\* C31: while the stored round is not completed, no step removes a user id
\* from the set of distinct user ids among its stored participants, also
\* when credits interleave.
C31_DistinctUsersNeverShrink ==
  [][ jackpot.status # "completed" =>
        UniqueUserIds(jackpot.participants)
          \subseteq UniqueUserIds(jackpot'.participants) ]_vars

\* C31 witness: two credits of different users that both loaded the empty
\* round have both saved it; both users are among the participants.
C31_Witness ==
  /\ interleaved
  /\ \A c \in CreditIds : credits[c].pc = "done"
  /\ published = << <<[user |-> "u1", items |-> {"A", "B"}]>>,
                    <<[user |-> "u2", items |-> {"D"}]>> >>
  /\ UniqueUserIds(jackpot.participants) = {"u1", "u2"}

\* credit c's Item.find resolves in this step: the added value is computed
\* and the in-memory round is changed
Valued(c) == credits[c].pc = "findItems" /\ credits'[c].pc = "saveJackpot"

\* an item whose price is missing or does not parse as a number
BadValuation(i) == i \in {"C", "E"}

\* C32: a credit some of whose items have a missing or non-numeric price
\* adds the valuations of its other items, zero for those items, and
\* appends its entry with all its items; its round save stores that entry.
C32_BadValuationCountsZero ==
  [][ \A c \in CreditIds :
        (\E i \in credits[c].itemIds : BadValuation(i)) =>
          /\ Valued(c) =>
               /\ credits'[c].jackpot.totalValue =
                    credits[c].jackpot.totalValue
                      + ValuationOf({i \in credits[c].itemIds :
                                       ~BadValuation(i)})
               /\ credits'[c].jackpot.participants =
                    Append(credits[c].jackpot.participants, CreditEntry(c))
          /\ RoundSaved(c) =>
               jackpot'.participants =
                 Append(jackpot.participants, CreditEntry(c)) ]_vars

\* C32 witness: the credit of B (worth 3) and C (price "abc") is stored
\* with both items and has added 3; the credit of C and E has added 0.
C32_Witness ==
  /\ credits[1].pc = "done" /\ credits[1].itemIds = {"B", "C"}
  /\ credits[2].pc = "done" /\ credits[2].itemIds = {"C", "E"}
  /\ jackpot.totalValue = 3
  /\ jackpot.participants =
       <<[user |-> "u1", items |-> {"B", "C"}],
         [user |-> "u1", items |-> {"C", "E"}]>>

\* credit c's user save resolves in this step: the credit has succeeded
UserSaved(c) == credits[c].pc = "saveUser" /\ credits'[c].pc = "done"

C35_CompletedRoundIsClosed ==
  [][ jackpot.status = "completed" =>
        /\ jackpot'.participants = jackpot.participants
        /\ jackpot'.totalValue = jackpot.totalValue ]_vars

\* the stored round holds the entry of credit c (in the next state)
EntryStored(c) ==
  \E k \in 1 .. Len(jackpot'.participants) :
     jackpot'.participants[k] = CreditEntry(c)

\* C37: when a credit ends, by its user save or in its catch block, the
\* stored round holds its entry if and only if its item ids are gone from
\* the user's stored inventory.
C37_CreditIsAllOrNothing ==
  [][ \A c \in CreditIds :
        (UserSaved(c) \/ Failed(c)) =>
           (EntryStored(c) <=>
              users'[credits[c].userId] \cap credits[c].itemIds = {}) ]_vars

\* C38: a credit that set the status in_progress and started the round
\* timer, and whose round save then fails, does not leave the round stored
\* as waiting.
C38_TimerOnlyForStoredInProgress ==
  [][ \A c \in CreditIds :
        (Failed(c) /\ credits[c].pc = "saveJackpot" /\ credits[c].modStatus)
          => jackpot'.status # "waiting" ]_vars

====
